---- MODULE Spec2Model ----
(***************************************************************************)
(* State-machine model of the deepfake-detection backend:                  *)
(*   src/preprocessing.py               video frame sampling and cropping  *)
(*   src/backend/model_utils.py         model file selection, model cache  *)
(*   src/backend/audio_preprocessing.py audio validation and conversion    *)
(*   src/backend/audio_model_utils.py   audio pipeline cache               *)
(*   src/backend/audio_predict.py       audio inference and calibration    *)
(*   src/backend/server.py              the two request handlers           *)
(*                                                                         *)
(* Python strings that the code parses (file names, extensions, MIME       *)
(* types) are sequences of one-character strings.  Every call runs to      *)
(* completion before the next starts: the handlers are coroutines that     *)
(* never await between their first and last statement.                     *)
(***************************************************************************)
EXTENDS Integers, Sequences, FiniteSets, TLC

VARIABLES
    model_cache,     \* model_utils._model_cache: cache key -> model instance
    constructed,     \* per cache key, how many times Model(...) was instantiated
    audio_pipeline,  \* audio_model_utils._audio_pipeline: None or the pipeline
    pipelines_built, \* how many times transformers.pipeline(...) returned
    modelFiles,      \* names of the files in the models directory
    cudaAvailable,   \* torch.cuda.is_available()
    tempFiles,       \* temporary files currently on disk
    last             \* the call that completed last: operation, arguments, result

vars == <<model_cache, constructed, audio_pipeline, pipelines_built,
          modelFiles, cudaAvailable, tempFiles, last>>

\* Python's None where an object is expected, and where a str is expected.
None == [kind |-> "None"]

NoneStr == <<"<None>">>

Min(a, b) == IF a < b THEN a ELSE b

Max(a, b) == IF a > b THEN a ELSE b

(***************************************************************************)
(* Python str operations on character sequences.                           *)
(***************************************************************************)

UpperChars == <<"A","B","C","D","E","F","G","H","I","J","K","L","M",
                "N","O","P","Q","R","S","T","U","V","W","X","Y","Z">>

LowerChars == <<"a","b","c","d","e","f","g","h","i","j","k","l","m",
                "n","o","p","q","r","s","t","u","v","w","x","y","z">>

DigitChars == <<"0","1","2","3","4","5","6","7","8","9">>

\* Position of character c in sequence s, 0 when absent.
IndexIn(c, s) ==
    IF \E i \in 1..Len(s) : s[i] = c
    THEN CHOOSE i \in 1..Len(s) : s[i] = c /\ \A j \in 1..(i - 1) : s[j] # c
    ELSE 0

\* str.lower() on one character.
LowerChar(c) ==
    IF IndexIn(c, UpperChars) > 0 THEN LowerChars[IndexIn(c, UpperChars)] ELSE c

\* str.lower()
StrLower(s) == [i \in 1..Len(s) |-> LowerChar(s[i])]

\* str.startswith(prefix)
StartsWith(s, prefix) ==
    /\ Len(s) >= Len(prefix)
    /\ SubSeq(s, 1, Len(prefix)) = prefix

\* str.split(sep)[0]: the text before the first separator, all of it if none.
SplitFirst(s, sep) ==
    IF IndexIn(sep, s) = 0 THEN s ELSE SubSeq(s, 1, IndexIn(sep, s) - 1)

\* str.strip(): leading and trailing blanks removed.
StrStrip(s) ==
    LET nonblank == {i \in 1..Len(s) : s[i] # " "}
    IN  IF nonblank = {} THEN <<>>
        ELSE SubSeq(s, CHOOSE i \in nonblank : \A j \in nonblank : i <= j,
                       CHOOSE i \in nonblank : \A j \in nonblank : i >= j)

\* str.split(sep): the fields between separators, in order.
RECURSIVE StrSplit(_, _)
StrSplit(s, sep) ==
    IF IndexIn(sep, s) = 0 THEN <<s>>
    ELSE <<SubSeq(s, 1, IndexIn(sep, s) - 1)>>
         \o StrSplit(SubSeq(s, IndexIn(sep, s) + 1, Len(s)), sep)

\* Code point order of the characters that occur in the modelled strings
\* (ASCII: '.' < digits < upper case < '_' < lower case).
CharOrd(c) ==
    IF c = " " THEN 32
    ELSE IF c = "+" THEN 43
    ELSE IF c = "-" THEN 45
    ELSE IF c = "." THEN 46
    ELSE IF c = "/" THEN 47
    ELSE IF IndexIn(c, DigitChars) > 0 THEN 47 + IndexIn(c, DigitChars)
    ELSE IF c = ";" THEN 59
    ELSE IF c = "=" THEN 61
    ELSE IF IndexIn(c, UpperChars) > 0 THEN 64 + IndexIn(c, UpperChars)
    ELSE IF c = "_" THEN 95
    ELSE 96 + IndexIn(c, LowerChars)

\* Python's str comparison a < b: lexicographic by code point.
RECURSIVE StrLess(_, _)
StrLess(a, b) ==
    IF Len(b) = 0 THEN FALSE
    ELSE IF Len(a) = 0 THEN TRUE
    ELSE IF CharOrd(a[1]) # CharOrd(b[1]) THEN CharOrd(a[1]) < CharOrd(b[1])
    ELSE StrLess(Tail(a), Tail(b))

\* Value of a sequence of decimal digits.
RECURSIVE DigitsValue(_)
DigitsValue(s) ==
    IF Len(s) = 0 THEN 0
    ELSE 10 * DigitsValue(SubSeq(s, 1, Len(s) - 1)) + (IndexIn(s[Len(s)], DigitChars) - 1)

\* int(s): surrounding blanks and one sign are accepted; anything else that is
\* not a non-empty run of digits raises ValueError.
IntParses(s) ==
    LET t == StrStrip(s)
        u == IF Len(t) > 0 /\ t[1] \in {"+", "-"} THEN Tail(t) ELSE t
    IN  /\ Len(u) > 0
        /\ \A i \in 1..Len(u) : IndexIn(u[i], DigitChars) > 0

IntValue(s) ==
    LET t == StrStrip(s)
        u == IF Len(t) > 0 /\ t[1] \in {"+", "-"} THEN Tail(t) ELSE t
    IN  IF Len(t) > 0 /\ t[1] = "-" THEN 0 - DigitsValue(u) ELSE DigitsValue(u)

(***************************************************************************)
(* src/preprocessing.py: frames, face crop, fixed-length sequence.         *)
(***************************************************************************)

IM_SIZE == 112

\* preprocess_video's fixed face margin, in pixels.
padding == 40

\* Largest number of decoded frames of a modelled video.
MaxFrames == 3

\* Largest sequence length of a direct preprocessing call.
MaxLen == 4

\* A decoded frame: its height and width and the boxes face_locations finds
\* in it, each <<top, right, bottom, left>>.
FrameChoices ==
    { [h |-> 200, w |-> 300, faces |-> <<>>],
      [h |-> 200, w |-> 300, faces |-> << <<60, 200, 120, 100>> >>],
      [h |-> 200, w |-> 300, faces |-> << <<10, 290, 70, 230>> >>],
      [h |-> 200, w |-> 300, faces |-> << <<150, 80, 190, 20>>, <<60, 200, 120, 100>> >>] }

\* The videos: every sequence of at most MaxFrames frames.
Videos == UNION {[1..n -> FrameChoices] : n \in 0..MaxFrames}

\* numpy slicing image[top:bottom, left:right] of frame number src.
Slice(src, channels, top, bottom, left, right) ==
    [src |-> src, channels |-> channels,
     top |-> top, bottom |-> bottom, left |-> left, right |-> right]

\* The whole image of frame number src.
FullFrame(src, channels, frame) == Slice(src, channels, 0, frame.h, 0, frame.w)

\* train_transforms: resize to IM_SIZE x IM_SIZE, to tensor, normalise.
train_transforms(image) == [kind |-> "tensor", size |-> IM_SIZE, of |-> image]

\* torch.zeros(3, IM_SIZE, IM_SIZE)
ZeroFrame == [kind |-> "zeros", size |-> IM_SIZE]

\* preprocess_video, lines 134-157: the image handed to the transform.
FaceCrop(i, frame) ==
    IF Len(frame.faces) > 0
    THEN LET box == frame.faces[1]
             top == Max(0, box[1] - padding)
             bottom == Min(frame.h, box[3] + padding)
             left == Max(0, box[4] - padding)
             right == Min(frame.w, box[2] + padding)
         IN  Slice(i, "RGB", top, bottom, left, right)
    ELSE FullFrame(i, "RGB", frame)

\* ValidationDataset.__getitem__, lines 45-51: the frame as decoded (BGR),
\* cut to the first face box when there is one.
DatasetCrop(i, frame) ==
    IF Len(frame.faces) > 0
    THEN LET box == frame.faces[1]
         IN  Slice(i, "BGR", box[1], box[3], box[4], box[2])
    ELSE FullFrame(i, "BGR", frame)

\* Padding that repeats the first frame instead of the last.
PadFirstFrame(pf, L) ==
    IF Len(pf) < L
    THEN pf \o [k \in 1..(L - Len(pf)) |-> IF Len(pf) > 0 THEN pf[1] ELSE ZeroFrame]
    ELSE pf

\* Lines 166-169 and 59-62: repeat the last frame until there are L of them.
PadToLength(pf, L) ==
    IF Len(pf) < L
    THEN LET last_frame == IF Len(pf) > 0 THEN pf[Len(pf)] ELSE ZeroFrame
         IN  pf \o [k \in 1..(L - Len(pf)) |-> last_frame]
    ELSE pf

\* Number of frames in which a face was found among the first k.
FacesFound(frames, k) == Cardinality({i \in 1..k : Len(frames[i].faces) > 0})

\* preprocess_video(video_path, sequence_length, save_preprocessed): the tuple
\* it returns, <<frames_tensor, preprocessed_images, face_cropped_images>>.
preprocess_video(frames, sequence_length, save_preprocessed) ==
    LET k == Min(sequence_length, Len(frames))
        processed_frames == [i \in 1..k |-> train_transforms(FaceCrop(i, frames[i]))]
        withFace == {i \in 1..k : Len(frames[i].faces) > 0}
        preprocessed_images ==
            IF save_preprocessed THEN [i \in 1..k |-> <<"frame", i>>] ELSE <<>>
        face_cropped_images ==
            IF save_preprocessed
            THEN [j \in 1..Cardinality(withFace) |->
                    <<"face", CHOOSE i \in withFace :
                                Cardinality({m \in withFace : m < i}) = j - 1>>]
            ELSE <<>>
        frames_tensor == SubSeq(PadToLength(processed_frames, sequence_length),
                                1, sequence_length)
    IN  <<frames_tensor, preprocessed_images, face_cropped_images>>

\* ValidationDataset(video_path, sequence_length).__getitem__(0)
dataset_getitem(frames, sequence_length) ==
    LET k == IF \E i \in 1..Len(frames) : i = sequence_length
             THEN sequence_length ELSE Len(frames)
        taken == [i \in 1..k |-> train_transforms(DatasetCrop(i, frames[i]))]
    IN  SubSeq(PadToLength(taken, sequence_length), 1, sequence_length)

(***************************************************************************)
(* src/backend/model_utils.py: model file selection and the model cache.   *)
(***************************************************************************)

\* "model_84_acc_10_frames.pt"
fileA ==
    <<"m","o","d","e","l","_","8","4","_","a","c","c","_","1","0","_","f","r","a","m","e","s",".","p","t">>

\* "model_9_acc_10_frames.pt"
fileB ==
    <<"m","o","d","e","l","_","9","_","a","c","c","_","1","0","_","f","r","a","m","e","s",".","p","t">>

\* "model_97_acc_20_frames.pt"
fileC ==
    <<"m","o","d","e","l","_","9","7","_","a","c","c","_","2","0","_","f","r","a","m","e","s",".","p","t">>

\* "model_90_acc_20_frames.pt"
fileD ==
    <<"m","o","d","e","l","_","9","0","_","a","c","c","_","2","0","_","f","r","a","m","e","s",".","p","t">>

\* "weights.pt"
fileE ==
    <<"w","e","i","g","h","t","s",".","p","t">>

\* "model_95_acc_ten_frames.pt"
fileF ==
    <<"m","o","d","e","l","_","9","5","_","a","c","c","_","t","e","n","_","f","r","a","m","e","s",".","p","t">>

\* "model_99_acc_10_frames.txt"
fileG ==
    <<"m","o","d","e","l","_","9","9","_","a","c","c","_","1","0","_","f","r","a","m","e","s",".","t","x","t">>

\* "model_93_acc_10_frames.pt"
fileH ==
    <<"m","o","d","e","l","_","9","3","_","a","c","c","_","1","0","_","f","r","a","m","e","s",".","p","t">>

\* Contents of the models directory that the model starts from.
ModelDirChoices ==
    { {},
      {fileG},
      {fileA, fileC, fileE},
      {fileA, fileB, fileF},
      {fileH, fileC, fileD} }

\* str.endswith(suffix)
EndsWith(s, suffix) ==
    /\ Len(s) >= Len(suffix)
    /\ SubSeq(s, Len(s) - Len(suffix) + 1, Len(s)) = suffix

\* glob.glob(os.path.join(models_dir, "*.pt")): the matching names; the
\* order of the list is whatever the file system gives.
GlobPt(files) == {f \in files : EndsWith(f, <<".", "p", "t">>)}

\* Every ordering of a finite set, as lists.
Orderings(S) ==
    {q \in [1..Cardinality(S) -> S] : \A i, j \in 1..Cardinality(S) : q[i] = q[j] => i = j}

\* model_filename.split("_") for every modelled file name.
NameParts == [f \in UNION ModelDirChoices |-> StrSplit(f, "_")]

\* Lines 63-70: the file name counts for sequence_length unless reading
\* parts[3] raises IndexError or int() raises ValueError.
MatchesSequence(model_filename, sequence_length) ==
    LET parts == NameParts[model_filename]
    IN  /\ Len(parts) >= 4
        /\ IntParses(parts[4])
        /\ IntValue(parts[4]) = sequence_length

\* Field 1 of the name, the accuracy, as the string it is.
AccuracyField(filename) == NameParts[filename][2]

\* max(accuracy) followed by accuracy.index(...): the first position holding
\* a greatest element under Python's order of the list's elements.
MaxIndex(accuracy) ==
    CHOOSE i \in 1..Len(accuracy) :
        /\ \A j \in 1..Len(accuracy) : ~StrLess(accuracy[i], accuracy[j])
        /\ \A j \in 1..(i - 1) : StrLess(accuracy[j], accuracy[i])

\* os.path.join(models_dir, name)
PathJoin(dir, name) == [kind |-> "path", dir |-> dir, name |-> name]

\* get_accurate_model(sequence_length) when glob returns list_models.
get_accurate_model(sequence_length, list_models) ==
    IF Len(list_models) = 0 THEN None
    ELSE LET sequence_model ==
                 SelectSeq(list_models, LAMBDA f : MatchesSequence(f, sequence_length))
         IN  IF Len(sequence_model) > 1
             THEN LET accuracy ==
                          [i \in 1..Len(sequence_model) |-> AccuracyField(sequence_model[i])]
                  IN  PathJoin("models", sequence_model[MaxIndex(accuracy)])
             ELSE IF Len(sequence_model) = 1
             THEN PathJoin("models", sequence_model[1])
             ELSE None

\* Sequence lengths and devices of the modelled load_model calls.
LoadLens == {10, 20}

Devices == {"cpu", "cuda"}

\* cache_key = f"{sequence_length}_{device}"
CacheKey(sequence_length, device) == <<sequence_length, device>>

CacheKeys == {CacheKey(l, d) : l \in LoadLens, d \in Devices}

\* Most Model(...) instantiations followed per cache key.
MaxConstruct == 2

\* What the environment lets a cache-missing load do: Model(...) raises (the
\* pretrained backbone cannot be fetched), torch.load or load_state_dict
\* raises (unreadable or mismatching file), or everything succeeds.
LoadOutcomes == {"construct_raises", "load_raises", "ok"}

\* The object Model(num_classes=2) returns: a fresh one at every call.
NewModel(key, serial, model_path, device, cuda) ==
    [kind |-> "Model", key |-> key, serial |-> serial, weights |-> model_path,
     on |-> IF device = "cuda" /\ cuda THEN "cuda" ELSE "cpu"]

\* A load that forgets to store the model.
CachePutNothing(cache, key, model) == cache

\* _model_cache[cache_key] = model
CachePut(cache, key, model) ==
    [k \in DOMAIN cache \cup {key} |-> IF k = key THEN model ELSE cache[k]]

\* A load that stores the model before its weights are read.
LoadModelMissStoresEarly(cache, made, cache_key, model_path, model, outcome) ==
    IF model_path = None \/ outcome = "construct_raises"
    THEN [ret |-> None, cache |-> cache, made |-> made, hit |-> FALSE]
    ELSE [ret |-> IF outcome = "load_raises" THEN None ELSE model,
          cache |-> CachePut(cache, cache_key, model),
          made |-> [made EXCEPT ![cache_key] = @ + 1], hit |-> FALSE]

\* load_model(sequence_length, device): the value returned, the cache and the
\* instantiation counts afterwards.
load_model_miss(cache, made, cache_key, model_path, model, outcome) ==
    IF model_path = None \/ outcome = "construct_raises"
    THEN [ret |-> None, cache |-> cache, made |-> made, hit |-> FALSE]
    ELSE IF outcome = "load_raises"
    THEN [ret |-> None, cache |-> cache,
          made |-> [made EXCEPT ![cache_key] = @ + 1], hit |-> FALSE]
    ELSE [ret |-> model, cache |-> CachePut(cache, cache_key, model),
          made |-> [made EXCEPT ![cache_key] = @ + 1], hit |-> FALSE]

load_model_path(cache, made, cache_key, model_path, device, outcome, cuda) ==
    load_model_miss(cache, made, cache_key, model_path,
                    NewModel(cache_key, made[cache_key] + 1, model_path, device, cuda),
                    outcome)

load_model(cache, made, sequence_length, device, list_models, outcome, cuda) ==
    IF CacheKey(sequence_length, device) \in DOMAIN cache
    THEN [ret |-> cache[CacheKey(sequence_length, device)], cache |-> cache,
          made |-> made, hit |-> TRUE]
    ELSE load_model_path(cache, made, CacheKey(sequence_length, device),
                         get_accurate_model(sequence_length, list_models),
                         device, outcome, cuda)

\* The directory listings and outcomes that differ in something the call
\* gets to use.
LoadEnvs(cache, files, sequence_length, device) ==
    IF CacheKey(sequence_length, device) \in DOMAIN cache
    THEN {[list_models |-> <<>>, outcome |-> "ok"]}
    ELSE {[list_models |-> q, outcome |-> o] :
             q \in Orderings(GlobPt(files)), o \in LoadOutcomes}

\* get_device()
get_device(cuda) == IF cuda THEN "cuda" ELSE "cpu"

(***************************************************************************)
(* src/backend/audio_preprocessing.py: validation and conversion.          *)
(***************************************************************************)

SUPPORTED_EXTENSIONS ==
    { <<".","w","a","v">>,
      <<".","m","p","3">>,
      <<".","f","l","a","c">>,
      <<".","m","4","a">>,
      <<".","o","g","g">>,
      <<".","w","m","a">>,
      <<".","a","a","c">> }

SUPPORTED_MIME_TYPES ==
    { <<"a","u","d","i","o","/","w","a","v">>,
      <<"a","u","d","i","o","/","x","-","w","a","v">>,
      <<"a","u","d","i","o","/","w","a","v","e">>,
      <<"a","u","d","i","o","/","m","p","e","g">>,
      <<"a","u","d","i","o","/","m","p","3">>,
      <<"a","u","d","i","o","/","f","l","a","c">>,
      <<"a","u","d","i","o","/","x","-","f","l","a","c">>,
      <<"a","u","d","i","o","/","m","p","4">>,
      <<"a","u","d","i","o","/","x","-","m","4","a">>,
      <<"a","u","d","i","o","/","m","4","a">>,
      <<"a","u","d","i","o","/","o","g","g">>,
      <<"a","u","d","i","o","/","v","o","r","b","i","s">>,
      <<"a","u","d","i","o","/","x","-","m","s","-","w","m","a">>,
      <<"a","u","d","i","o","/","a","a","c">> }

\* 50 * 1024 * 1024
MaxAudioBytes == 50 * 1024 * 1024

\* Last position of character c in s, 0 when absent.
LastIndexIn(c, s) ==
    IF \E i \in 1..Len(s) : s[i] = c
    THEN CHOOSE i \in 1..Len(s) : s[i] = c /\ \A j \in (i + 1)..Len(s) : s[j] # c
    ELSE 0

\* os.path.splitext(path)[1]: from the last dot of the base name on, unless
\* that dot has only dots (or nothing) before it in the base name.
SplitExt(path) ==
    LET sepIndex == LastIndexIn("/", path)
        dotIndex == LastIndexIn(".", path)
    IN  IF /\ dotIndex > sepIndex
           /\ \E i \in (sepIndex + 1)..(dotIndex - 1) : path[i] # "."
        THEN SubSeq(path, dotIndex, Len(path))
        ELSE <<>>

\* "/up/a.wav"
pathWav ==
    <<"/","u","p","/","a",".","w","a","v">>

\* "/up/a.MP3"
pathMp3Upper ==
    <<"/","u","p","/","a",".","M","P","3">>

\* "/up/a.ogg"
pathOgg ==
    <<"/","u","p","/","a",".","o","g","g">>

\* "/up/a.m4a"
pathM4a ==
    <<"/","u","p","/","a",".","m","4","a">>

\* "/up/a.txt"
pathTxt ==
    <<"/","u","p","/","a",".","t","x","t">>

\* "/up.d/a"
pathNoExt ==
    <<"/","u","p",".","d","/","a">>

\* "/up/.wav"
pathHidden ==
    <<"/","u","p","/",".","w","a","v">>

\* "audio/wav"
ctWav ==
    <<"a","u","d","i","o","/","w","a","v">>

\* "Audio/MPEG; charset=x"
ctMpegParam ==
    <<"A","u","d","i","o","/","M","P","E","G",";"," ","c","h","a","r","s","e","t","=","x">>

\* " audio/x-custom"
ctCustom ==
    <<" ","a","u","d","i","o","/","x","-","c","u","s","t","o","m">>

\* "video/mp4"
ctVideo ==
    <<"v","i","d","e","o","/","m","p","4">>

\* "text/plain;audio/wav"
ctTextAudio ==
    <<"t","e","x","t","/","p","l","a","i","n",";","a","u","d","i","o","/","w","a","v">>

\* " ;audio/wav"
ctBlankParam ==
    <<" ",";","a","u","d","i","o","/","w","a","v">>

\* ""
ctEmpty ==
    <<>>

\* Paths, sizes and content types of the modelled audio files.
AudioPaths == {pathWav, pathMp3Upper, pathOgg, pathM4a, pathTxt, pathNoExt, pathHidden}

AudioSizes == {0, 1, MaxAudioBytes, MaxAudioBytes + 1}

AudioFiles ==
    [path : AudioPaths, exists : {TRUE}, size : AudioSizes]
    \cup [path : AudioPaths, exists : {FALSE}, size : {0}]

ContentTypes ==
    {NoneStr, ctEmpty, ctWav, ctMpegParam, ctCustom, ctVideo, ctTextAudio, ctBlankParam}

\* Python truthiness of an Optional[str]: neither None nor "".
Truthy(s) == s # NoneStr /\ Len(s) > 0

\* A call that returns value v; a call that raises exception exc.
Returns(v) == [exc |-> "none", value |-> v]

Raises(exc, detail) == [exc |-> exc, detail |-> detail, status_code |-> 0]

\* The base type cut at ';' but neither trimmed nor lower-cased.
BaseTypeUnnormalised(content_type) == SplitFirst(content_type, ";")

\* Line 81: content_type.split(';')[0].strip().lower()
BaseType(content_type) == StrLower(StrStrip(SplitFirst(content_type, ";")))

\* validate_audio_file(file_path, content_type)
validate_audio_file(file, content_type) ==
    IF ~file.exists
    THEN Raises("AudioValidationError", "Audio file not found")
    ELSE IF file.size = 0
    THEN Raises("AudioValidationError", "Audio file is empty")
    ELSE IF file.size > MaxAudioBytes
    THEN Raises("AudioValidationError", "Audio file too large (max 50MB)")
    ELSE IF /\ Len(StrLower(SplitExt(file.path))) > 0
            /\ StrLower(SplitExt(file.path)) \notin SUPPORTED_EXTENSIONS
    THEN Raises("AudioValidationError", "Unsupported audio format")
    ELSE IF /\ Truthy(content_type)
            /\ BaseType(content_type) \notin SUPPORTED_MIME_TYPES
            /\ ~StartsWith(BaseType(content_type), <<"a", "u", "d", "i", "o", "/">>)
    THEN Raises("AudioValidationError", "Invalid content type")
    ELSE Returns(None)

\* Most temporary files on disk at once in the modelled runs.
MaxTempFiles == 2

\* tempfile.NamedTemporaryFile(suffix=..., delete=False).name: a path no
\* existing temporary file has.
TempPath(n, suffix) == <<"/", "t", "m", "p", "/", DigitChars[n + 1]>> \o suffix

FreshTemp(temps, suffix) ==
    TempPath(CHOOSE n \in 0..Cardinality(temps) :
                 /\ \A t \in temps : t[6] # DigitChars[n + 1]
                 /\ \A m \in 0..(n - 1) : \E t \in temps : t[6] = DigitChars[m + 1],
             suffix)

\* What running ffmpeg can do in convert_to_wav: NamedTemporaryFile itself
\* raises, ffmpeg exits 0 or non-zero, times out, is not installed, or
\* subprocess.run raises something else.
ConvertOutcomes ==
    {"mktemp_raises", "exit_0", "exit_nonzero", "timeout", "not_installed", "other_error"}

\* Formats soundfile reads directly (line 110).
DirectFormats == {<<".", "w", "a", "v">>, <<".", "f", "l", "a", "c">>, <<".", "o", "g", "g">>}

\* A comparison of the extension that keeps its case.
NeedsConversionCaseKept(path) == SplitExt(path) \notin DirectFormats

\* Lines 106-112: the extension, lower-cased, is none of the direct formats.
NeedsConversion(path) == StrLower(SplitExt(path)) \notin DirectFormats

\* convert_to_wav(input_path): the outcome, the temporary files afterwards
\* and whether subprocess.run was called.
convert_to_wav_run(output_path, temps, outcome) ==
    [out |-> IF outcome = "exit_0" THEN Returns(output_path)
             ELSE IF outcome = "exit_nonzero"
             THEN Raises("AudioLoadError",
                         "Audio conversion failed: Failed to convert audio")
             ELSE IF outcome = "timeout"
             THEN Raises("AudioLoadError", "Audio conversion timed out")
             ELSE IF outcome = "not_installed"
             THEN Raises("AudioLoadError", "ffmpeg not found")
             ELSE Raises("AudioLoadError", "Audio conversion failed"),
     temps |-> temps \cup {output_path}, ran |-> TRUE]

convert_to_wav(input_path, temps, outcome) ==
    IF ~NeedsConversion(input_path)
    THEN [out |-> Returns(input_path), temps |-> temps, ran |-> FALSE]
    ELSE IF outcome = "mktemp_raises"
    THEN [out |-> Raises("OSError", "NamedTemporaryFile"), temps |-> temps,
          ran |-> FALSE]
    ELSE convert_to_wav_run(FreshTemp(temps, <<".", "w", "a", "v">>), temps, outcome)

\* preprocess_audio(file_path, content_type)
preprocess_audio_checked(validated, input_path, temps, outcome) ==
    IF validated.exc # "none"
    THEN [out |-> validated, temps |-> temps, ran |-> FALSE]
    ELSE convert_to_wav(input_path, temps, outcome)

preprocess_audio(file, content_type, temps, outcome) ==
    preprocess_audio_checked(validate_audio_file(file, content_type), file.path,
                             temps, outcome)

\* cleanup_temp_wav(original_path, wav_path): os.unlink unless it raises.
cleanup_temp_wav(original_path, wav_path, temps, unlink_ok) ==
    IF wav_path # original_path /\ wav_path \in temps /\ unlink_ok
    THEN temps \ {wav_path}
    ELSE temps

(***************************************************************************)
(* src/backend/audio_model_utils.py: the cached audio pipeline.            *)
(***************************************************************************)

AUDIO_MODEL_ID == "MelodyMachine/Deepfake-audio-detection-V2"

\* load_audio_pipeline(): the outcome, the cached pipeline and the number of
\* pipelines built afterwards.  built_ok: transformers.pipeline(...) returns.
load_audio_pipeline(pipe, built, built_ok) ==
    IF pipe # None
    THEN [out |-> Returns(pipe), pipe |-> pipe, built |-> built]
    ELSE IF built_ok
    THEN [out |-> Returns([kind |-> "pipeline", serial |-> built + 1]),
          pipe |-> [kind |-> "pipeline", serial |-> built + 1],
          built |-> built + 1]
    ELSE [out |-> Raises("RuntimeError", "Failed to load audio classification model"),
          pipe |-> pipe, built |-> built]

\* An unload that leaves the pipeline where it is.
UnloadKeeps(pipe) == pipe

\* unload_audio_pipeline()
unload_audio_pipeline(pipe) == None

\* is_audio_pipeline_loaded()
is_audio_pipeline_loaded(pipe) == pipe # None

(***************************************************************************)
(* src/backend/audio_predict.py: inference and temperature scaling.        *)
(*                                                                         *)
(* A probability p is the integer p * ScoreUnit.  math.log(p) is kept as   *)
(* the logarithm's argument with the divisor applied to it so far, and     *)
(* math.exp of a difference of two such logits is the quotient of the      *)
(* arguments' roots, in thousandths.                                       *)
(***************************************************************************)

TEMPERATURE == 3

\* The clamp's resolution: 0.0000001 = 1 / ScoreUnit.
ScoreUnit == 10000000

\* The pipeline's raw scores are multiples of 1 / ScoreSteps.
ScoreSteps == 8

RootUnit == 10 * 10 * 10

RECURSIVE Pow(_, _)
Pow(k, n) == IF n = 0 THEN 1 ELSE k * Pow(k, n - 1)

\* Score k / ScoreSteps as a multiple of 1 / ScoreUnit.
Score7(k) == (k * ScoreUnit) \div ScoreSteps

\* results of the pipeline: a list of {"label": ..., "score": ...}.
ScoreItems(label) == {[label |-> label, score |-> k] : k \in 0..ScoreSteps}

InferResults ==
    {<<a, b>> : a \in ScoreItems("fake"), b \in ScoreItems("real")}
    \cup {<<a>> : a \in ScoreItems("fake")}
    \cup {<<b>> : b \in ScoreItems("real")}
    \cup {<<>>}

\* raw_scores = {item["label"]: item["score"] ...}; raw_scores.get(label, 0.5)
RawScore(results, label) ==
    IF \E i \in 1..Len(results) : results[i].label = label
    THEN Score7(results[CHOOSE i \in 1..Len(results) :
                            /\ results[i].label = label
                            /\ \A j \in (i + 1)..Len(results) : results[j].label # label].score)
    ELSE ScoreUnit \div 2

\* max(min(score, 0.9999999), 0.0000001)
Clamp(score) == Max(Min(score, ScoreUnit - 1), 1)

\* math.log(score)
MathLog(score) == [ln |-> score, over |-> 1]

\* logit / TEMPERATURE
ScaleLogit(logit) == [ln |-> logit.ln, over |-> logit.over * TEMPERATURE]

\* max(real_scaled, fake_scaled)
MaxLogit(a, b) == IF a.ln >= b.ln THEN a ELSE b

\* exp(logit) = (ln / ScoreUnit) ^ (1 / over), in units of 1 / RootUnit.
RootOf(logit) ==
    CHOOSE k \in 0..RootUnit :
        /\ Pow(k, logit.over) <= logit.ln * (Pow(RootUnit, logit.over) \div ScoreUnit)
        /\ Pow(k + 1, logit.over) > logit.ln * (Pow(RootUnit, logit.over) \div ScoreUnit)

\* math.exp(logit - max_logit), in units of 1 / RootUnit.
ExpDiff(logit, max_logit) == (RootOf(logit) * RootUnit) \div RootOf(max_logit)

\* A total that leaves out one of the two terms.
TotalRealOnly(real_exp, fake_exp) == real_exp

\* total = real_exp + fake_exp
Total(real_exp, fake_exp) == real_exp + fake_exp

\* round(part / total * 100, 2), in hundredths of a percent.
Percent(part, total) == (2 * part * 10000 + total) \div (2 * total)

\* A decision that gives a tie to "real".
TopLabelOrEqual(real_score, fake_score) ==
    IF real_score >= fake_score THEN "real" ELSE "fake"

\* Line 106: the decision, taken on the clamped raw scores.
TopLabel(real_score, fake_score) ==
    IF real_score > fake_score THEN "real" ELSE "fake"

\* str.upper() of the two labels.
UpperLabel(label) == IF label = "real" THEN "REAL" ELSE "FAKE"

\* Lines 72-118: the result dictionary from the pipeline's results.
ScoreResult(results) ==
    LET real_score == Clamp(RawScore(results, "real"))
        fake_score == Clamp(RawScore(results, "fake"))
        real_scaled == ScaleLogit(MathLog(real_score))
        fake_scaled == ScaleLogit(MathLog(fake_score))
        max_logit == MaxLogit(real_scaled, fake_scaled)
        real_exp == ExpDiff(real_scaled, max_logit)
        fake_exp == ExpDiff(fake_scaled, max_logit)
        total == Total(real_exp, fake_exp)
        top_label == TopLabel(real_score, fake_score)
    IN  [prediction |-> UpperLabel(top_label),
         confidence |-> IF top_label = "real" THEN Percent(real_exp, total)
                        ELSE Percent(fake_exp, total),
         model |-> AUDIO_MODEL_ID,
         all_scores |-> [real |-> Percent(real_exp, total),
                         fake |-> Percent(fake_exp, total)]]

\* ScoreResult over every modelled result list.
ScoreTable == [r \in InferResults |-> ScoreResult(r)]

\* What one predict_audio call meets: the conversion's outcome, whether the
\* pipeline can be built, what inference does, whether os.unlink succeeds.
NoInfer == [raises |-> TRUE, results |-> <<>>]

InferChoices == {NoInfer} \cup {[raises |-> FALSE, results |-> r] : r \in InferResults}

AudioEnv(convert, built_ok, infer, unlink_ok) ==
    [convert |-> convert, built_ok |-> built_ok, infer |-> infer, unlink_ok |-> unlink_ok]

\* The environments that differ in something the call gets to use.
PredictAudioEnvs(file, content_type, pipe, infers) ==
    IF validate_audio_file(file, content_type).exc # "none"
    THEN {AudioEnv("unused", TRUE, NoInfer, TRUE)}
    ELSE LET converts == IF NeedsConversion(file.path) THEN ConvertOutcomes ELSE {"unused"}
             unlinks == IF NeedsConversion(file.path) THEN BOOLEAN ELSE {TRUE}
         IN  {AudioEnv(c, TRUE, NoInfer, TRUE) : c \in converts \ {"unused", "exit_0"}}
             \cup {AudioEnv(c, FALSE, NoInfer, u) :
                     c \in converts \cap {"unused", "exit_0"}, u \in unlinks}
             \cup {AudioEnv(c, TRUE, i, u) :
                     c \in converts \cap {"unused", "exit_0"}, i \in infers, u \in unlinks}

\* predict_audio(file_path, content_type): the outcome, and the cached
\* pipeline, the build count and the temporary files afterwards.
predict_audio_infer(original_path, wav_path, temps, loaded, env) ==
    [out |-> IF loaded.out.exc # "none" \/ env.infer.raises
             THEN Raises("AudioPredictionError", "Prediction failed")
             ELSE Returns(ScoreTable[env.infer.results]),
     pipe |-> loaded.pipe, built |-> loaded.built,
     temps |-> IF wav_path # original_path
               THEN cleanup_temp_wav(original_path, wav_path, temps, env.unlink_ok)
               ELSE temps]

predict_audio_pre(original_path, pre, pipe, built, env) ==
    IF pre.out.exc \in {"AudioValidationError", "AudioLoadError"}
    THEN [out |-> pre.out, pipe |-> pipe, built |-> built, temps |-> pre.temps]
    ELSE IF pre.out.exc # "none"
    THEN [out |-> Raises("AudioPredictionError", "Prediction failed"),
          pipe |-> pipe, built |-> built, temps |-> pre.temps]
    ELSE predict_audio_infer(original_path, pre.out.value, pre.temps,
                             load_audio_pipeline(pipe, built, env.built_ok), env)

predict_audio(file, content_type, pipe, built, temps, env) ==
    predict_audio_pre(file.path,
                      preprocess_audio(file, content_type, temps, env.convert),
                      pipe, built, env)

(***************************************************************************)
(* src/preprocessing.py, predict: arg-max over the soft-maxed logits.      *)
(***************************************************************************)

\* The model's soft-maxed output for the two classes, in percent.
SoftmaxChoices == {<<0, 100>>, <<30, 70>>, <<50, 50>>, <<70, 30>>, <<100, 0>>}

\* Largest absolute value of a modelled logit.
LogitBound == 2

\* The modelled output of the network: a pair of integer logits.
LogitPairs == (-LogitBound..LogitBound) \X (-LogitBound..LogitBound)

\* e^(-d) in ten-thousandths, d = 0, 1, 2, ...
ExpTable == <<10000, 3679, 1353, 498, 183, 67, 25, 9, 3>>

\* torch.nn.Softmax(dim=1) on one row of two logits: the two probabilities
\* in ten-thousandths, rounded to the nearest.
Softmax(logits) ==
    LET m == Max(logits[1], logits[2])
        e == [i \in 1..2 |-> ExpTable[(m - logits[i]) + 1]]
        total == e[1] + e[2]
    IN  [i \in 1..2 |-> (2 * e[i] * 10000 + total) \div (2 * total)]

\* A predict that answers class 0 whatever the probabilities.
PredictFirstClass(probs) == <<0, probs[1]>>

\* predict(model, img_tensor, device): torch.max takes the first greatest
\* entry; class 0 is FAKE and class 1 is REAL.
predict(probs) ==
    LET prediction == IF probs[2] > probs[1] THEN 1 ELSE 0
    IN  <<prediction, probs[prediction + 1]>>

(***************************************************************************)
(* src/backend/server.py: the two request handlers.                        *)
(***************************************************************************)

valid_lengths == {10, 20, 40, 60, 80, 100}

\* Line 133 unpacks the tuple preprocess_video returns into this many names.
UnpackTargets == 4

\* a, b, c, d = value: ValueError unless the tuple has as many entries.
Unpack(value, targets) ==
    IF Len(value) = targets THEN Returns(value)
    ELSE Raises("ValueError", "not enough values to unpack")

\* raise HTTPException(status_code, detail)
HTTPException(status_code, detail) ==
    [exc |-> "HTTPException", detail |-> detail, status_code |-> status_code]

\* return JSONResponse(content)
JSONResponse(content) == Returns([status_code |-> 200, content |-> content])

\* "v.mp4"
nameMp4 ==
    <<"v",".","m","p","4">>

\* "Video/mp4"
ctVideoUpper ==
    <<"V","i","d","e","o","/","m","p","4">>

\* What saving the upload can do (lines 113-115, 229-231): the temporary
\* file cannot be created, copying into it raises, or it is saved.
SaveOutcomes == {"mktemp_raises", "copy_raises", "saved"}

\* A finally block that deletes nothing.
FinallyKeeps(temp_path, temps, unlink_ok) == temps

\* finally: os.unlink(temp_path) when the path was assigned and exists.
FinallyUnlink(temp_path, temps, unlink_ok) ==
    IF temp_path # NoneStr /\ temp_path \in temps /\ unlink_ok
    THEN temps \ {temp_path}
    ELSE temps

\* The uploads and sequence lengths of the modelled video requests.
VideoUploads ==
    [content_type : {NoneStr, ctEmpty, ctVideo, ctVideoUpper, ctWav},
     filename : {NoneStr, nameMp4},
     frames : {v \in Videos : Len(v) <= 1 /\ \A i \in 1..Len(v) : Len(v[i].faces) = 1}]

SequenceLengthRequests == {0, 10, 15, 20}

\* What one video request meets: saving, the models directory listing and
\* the load's outcome, whether preprocessing or inference raise, the model's
\* soft-maxed output, whether os.unlink succeeds.
VideoEnv(save, list_models, load, preprocess_ok, predict_ok, probs, unlink_ok) ==
    [save |-> save, list_models |-> list_models, load |-> load,
     preprocess_ok |-> preprocess_ok, predict_ok |-> predict_ok, probs |-> probs,
     unlink_ok |-> unlink_ok]

\* Lines 92-104: the request passes the handler's two checks.
VideoRequestValid(file, sequence_length) ==
    /\ sequence_length \in valid_lengths
    /\ Truthy(file.content_type)
    /\ StartsWith(file.content_type, <<"v", "i", "d", "e", "o", "/">>)

\* The environments that differ in something the request gets to use.
VideoEnvs(cache, cuda, files, file, sequence_length) ==
    IF ~VideoRequestValid(file, sequence_length) \/ file.filename = NoneStr
    THEN {VideoEnv("saved", <<>>, "ok", TRUE, TRUE, <<50, 50>>, TRUE)}
    ELSE LET loads == LoadEnvs(cache, files, sequence_length, get_device(cuda))
             unpacks == Len(preprocess_video(file.frames, sequence_length, FALSE))
                          = UnpackTargets
         IN  {VideoEnv(s, <<>>, "ok", TRUE, TRUE, <<50, 50>>, TRUE) :
                 s \in SaveOutcomes \ {"saved"}}
             \cup {VideoEnv("saved", l.list_models, l.outcome, pre, pred, probs, u) :
                     l \in loads,
                     pre \in BOOLEAN,
                     pred \in IF unpacks THEN BOOLEAN ELSE {TRUE},
                     probs \in IF unpacks THEN SoftmaxChoices ELSE {<<50, 50>>},
                     u \in BOOLEAN}

\* Line 146: prediction_label = "REAL" if prediction_int == 1 else "FAKE"
prediction_label(prediction_int) == IF prediction_int = 1 THEN "REAL" ELSE "FAKE"

\* Lines 119-165: from load_model to the response, the upload being saved.
VideoBodyOut(loaded, unpacked, predicted, sequence_length, device, env) ==
    IF loaded.ret = None
    THEN HTTPException(500, "Failed to load model")
    ELSE IF ~env.preprocess_ok
    THEN Raises("Exception", "preprocess_video")
    ELSE IF unpacked.exc # "none"
    THEN unpacked
    ELSE IF ~env.predict_ok
    THEN Raises("Exception", "predict")
    ELSE JSONResponse(
           [prediction |-> prediction_label(predicted[1]),
            confidence |-> predicted[2],
            sequence_length |-> sequence_length,
            device |-> device,
            faces_found |-> unpacked.value[4],
            total_frames_analyzed |-> Len(unpacked.value[3]),
            frame_images |-> SubSeq(unpacked.value[3], 1,
                                    Min(6, Len(unpacked.value[3])))])

VideoBodyLoaded(loaded, unpacked, predicted, sequence_length, device, env) ==
    [cache |-> loaded.cache, made |-> loaded.made, model |-> loaded.ret,
     out |-> VideoBodyOut(loaded, unpacked, predicted, sequence_length, device, env)]

VideoBody(cache, made, cuda, file, sequence_length, env) ==
    VideoBodyLoaded(load_model(cache, made, sequence_length, get_device(cuda),
                               env.list_models, env.load, cuda),
                    Unpack(preprocess_video(file.frames, sequence_length, FALSE),
                           UnpackTargets),
                    predict(env.probs), sequence_length, get_device(cuda), env)

\* A handler without "except HTTPException: raise".
VideoExceptAll500(out) ==
    IF out.exc # "none" THEN HTTPException(500, "Prediction failed") ELSE out

\* Lines 167-176: an HTTPException is raised again as it is, any other
\* exception becomes HTTPException(500).
VideoExcept(out) ==
    IF out.exc \notin {"none", "HTTPException"}
    THEN HTTPException(500, "Prediction failed")
    ELSE out

\* A model that was not asked for.
NotCalled == [kind |-> "not called"]

\* predict_video_endpoint(file, sequence_length): the response or the
\* HTTPException, whether the upload was saved, what load_model returned,
\* and the model cache, the instantiation counts and the temporary files
\* afterwards.
VideoSaved(body, temp_video_path, created, unlink_ok) ==
    [out |-> VideoExcept(body.out), cache |-> body.cache, made |-> body.made,
     temps |-> FinallyUnlink(temp_video_path, created, unlink_ok),
     saved |-> TRUE, model |-> body.model]

VideoNotSaved(out, cache, made, temps) ==
    [out |-> VideoExcept(out), cache |-> cache, made |-> made, temps |-> temps,
     saved |-> FALSE, model |-> NotCalled]

VideoSave(cache, made, cuda, temps, file, sequence_length, env, temp_video_path) ==
    IF env.save = "copy_raises"
    THEN VideoNotSaved(Raises("OSError", "copyfileobj"), cache, made,
                       temps \cup {temp_video_path})
    ELSE VideoSaved(VideoBody(cache, made, cuda, file, sequence_length, env),
                    temp_video_path, temps \cup {temp_video_path}, env.unlink_ok)

predict_video_endpoint(cache, made, cuda, temps, file, sequence_length, env) ==
    IF sequence_length \notin valid_lengths
    THEN VideoNotSaved(HTTPException(400, "Invalid sequence_length"), cache, made, temps)
    ELSE IF ~Truthy(file.content_type)
            \/ ~StartsWith(file.content_type, <<"v", "i", "d", "e", "o", "/">>)
    THEN VideoNotSaved(HTTPException(400, "File must be a video"), cache, made, temps)
    ELSE IF file.filename = NoneStr
    THEN VideoNotSaved(Raises("TypeError", "os.path.splitext(None)"), cache, made, temps)
    ELSE IF env.save = "mktemp_raises"
    THEN VideoNotSaved(Raises("OSError", "NamedTemporaryFile"), cache, made, temps)
    ELSE VideoSave(cache, made, cuda, temps, file, sequence_length, env,
                   FreshTemp(temps, SplitExt(file.filename)))

\* "a.wav", "a.MP3", "a.txt", "a"
nameWav ==
    <<"a",".","w","a","v">>

nameMp3Upper ==
    <<"a",".","M","P","3">>

nameTxt ==
    <<"a",".","t","x","t">>

nameNoExt ==
    <<"a">>

\* The uploads of the modelled audio requests.
AudioUploads ==
    [content_type : {NoneStr, ctWav, ctMpegParam, ctVideo},
     filename : {NoneStr, nameWav, nameMp3Upper, nameTxt, nameNoExt},
     size : {0, 1, MaxAudioBytes + 1}]

\* Line 214: a content type is given and does not start with 'audio/'.
AudioRequestRejected(file) ==
    /\ Truthy(file.content_type)
    /\ ~StartsWith(file.content_type, <<"a", "u", "d", "i", "o", "/">>)

\* Line 226: the suffix of the temporary file.
UploadSuffix(file) ==
    IF Truthy(file.filename) THEN SplitExt(file.filename) ELSE <<".", "w", "a", "v">>

\* The saved upload as predict_audio sees it.
SavedUpload(file, temp_audio_path) ==
    [path |-> temp_audio_path, exists |-> TRUE, size |-> file.size]

\* What one audio request meets: saving, what predict_audio meets, whether
\* the handler's os.unlink succeeds.
AudioRequestEnv(save, audio, unlink_ok) ==
    [save |-> save, audio |-> audio, unlink_ok |-> unlink_ok]

\* What inference returns in the modelled audio requests.
RequestInfers ==
    {NoInfer}
    \cup {[raises |-> FALSE, results |-> r] :
            r \in {<<>>,
                   <<[label |-> "fake", score |-> 0], [label |-> "real", score |-> ScoreSteps]>>,
                   <<[label |-> "fake", score |-> ScoreSteps - 1], [label |-> "real", score |-> 1]>>}}

AudioRequestEnvs(pipe, temps, file) ==
    IF AudioRequestRejected(file)
    THEN {AudioRequestEnv("saved", AudioEnv("unused", TRUE, NoInfer, TRUE), TRUE)}
    ELSE {AudioRequestEnv(s, AudioEnv("unused", TRUE, NoInfer, TRUE), TRUE) :
             s \in SaveOutcomes \ {"saved"}}
         \cup {AudioRequestEnv("saved", e, u) :
                 e \in PredictAudioEnvs(
                         SavedUpload(file, FreshTemp(temps, UploadSuffix(file))),
                         file.content_type, pipe, RequestInfers),
                 u \in BOOLEAN}

\* A handler that answers 500 to every exception.
AudioExceptAll500(out) ==
    IF out.exc \notin {"none", "HTTPException"}
    THEN HTTPException(500, out.detail)
    ELSE out

\* Lines 246-268: the handler's except clauses.
AudioExcept(out) ==
    IF out.exc \in {"AudioValidationError", "AudioLoadError"}
    THEN HTTPException(400, out.detail)
    ELSE IF out.exc = "AudioPredictionError"
    THEN HTTPException(500, out.detail)
    ELSE IF out.exc \notin {"none", "HTTPException"}
    THEN HTTPException(500, "Audio prediction failed")
    ELSE out

\* predict_audio_endpoint(file): the response or the HTTPException, whether
\* the upload was saved, what predict_audio did, and the cached pipeline, the
\* build count and the temporary files afterwards.
AudioSaved(result, temp_audio_path, unlink_ok) ==
    [out |-> IF result.out.exc = "none"
             THEN JSONResponse(result.out.value)
             ELSE AudioExcept(result.out),
     pipe |-> result.pipe, built |-> result.built,
     temps |-> FinallyUnlink(temp_audio_path, result.temps, unlink_ok),
     saved |-> TRUE, inner |-> result.out]

AudioNotSaved(out, pipe, built, temps) ==
    [out |-> AudioExcept(out), pipe |-> pipe, built |-> built, temps |-> temps,
     saved |-> FALSE, inner |-> Raises("not called", "")]

AudioSave(pipe, built, temps, file, env, temp_audio_path) ==
    IF env.save = "copy_raises"
    THEN AudioNotSaved(Raises("OSError", "copyfileobj"), pipe, built,
                       temps \cup {temp_audio_path})
    ELSE AudioSaved(predict_audio(SavedUpload(file, temp_audio_path), file.content_type,
                                  pipe, built, temps \cup {temp_audio_path}, env.audio),
                    temp_audio_path, env.unlink_ok)

predict_audio_endpoint(pipe, built, temps, file, env) ==
    IF AudioRequestRejected(file)
    THEN AudioNotSaved(HTTPException(400, "File must be an audio file"), pipe, built, temps)
    ELSE IF env.save = "mktemp_raises"
    THEN AudioNotSaved(Raises("OSError", "NamedTemporaryFile"), pipe, built, temps)
    ELSE AudioSave(pipe, built, temps, file, env, FreshTemp(temps, UploadSuffix(file)))

(***************************************************************************)
(* The state machine.                                                      *)
(***************************************************************************)

\* The empty dictionary.
EmptyCache == [k \in {} |-> None]

\* After import: empty caches, nothing called yet.  The models directory and
\* the presence of a GPU are the environment's.
Init ==
    /\ model_cache = EmptyCache
    /\ constructed = [k \in CacheKeys |-> 0]
    /\ audio_pipeline = None
    /\ pipelines_built = 0
    /\ modelFiles \in ModelDirChoices
    /\ cudaAvailable \in BOOLEAN
    /\ tempFiles = {}
    /\ last = [op |-> "none"]

\* preprocess_video(video_path, sequence_length, save_preprocessed)
PreprocessVideo ==
    /\ last.op = "none"
    /\ \E frames \in Videos, sequence_length \in 1..MaxLen, save \in BOOLEAN :
        /\ last' = [op |-> "preprocess_video", frames |-> frames,
                    sequence_length |-> sequence_length,
                    ret |-> preprocess_video(frames, sequence_length, save)]
        /\ UNCHANGED <<model_cache, constructed, audio_pipeline, pipelines_built,
                       modelFiles, cudaAvailable, tempFiles>>

\* ValidationDataset(video_path, sequence_length)[0]
DatasetGetItem ==
    /\ last.op = "none"
    /\ \E frames \in Videos, sequence_length \in 1..MaxLen :
        /\ last' = [op |-> "ValidationDataset.__getitem__", frames |-> frames,
                    sequence_length |-> sequence_length,
                    ret |-> dataset_getitem(frames, sequence_length)]
        /\ UNCHANGED <<model_cache, constructed, audio_pipeline, pipelines_built,
                       modelFiles, cudaAvailable, tempFiles>>

\* get_accurate_model(sequence_length)
GetAccurateModel ==
    /\ last.op = "none"
    /\ \E sequence_length \in LoadLens \cup {15},
       list_models \in Orderings(GlobPt(modelFiles)) :
        /\ last' = [op |-> "get_accurate_model", sequence_length |-> sequence_length,
                    list_models |-> list_models,
                    ret |-> get_accurate_model(sequence_length, list_models)]
        /\ UNCHANGED <<model_cache, constructed, audio_pipeline, pipelines_built,
                       modelFiles, cudaAvailable, tempFiles>>

\* load_model(sequence_length, device)
LoadModel ==
    /\ last.op = "none"
    /\ \E sequence_length \in LoadLens, device \in Devices :
      \E env \in LoadEnvs(model_cache, modelFiles, sequence_length, device) :
        \E r \in {load_model(model_cache, constructed, sequence_length, device,
                            env.list_models, env.outcome, cudaAvailable)} :
            /\ \A k \in CacheKeys : r.made[k] <= MaxConstruct
            /\ model_cache' = r.cache
            /\ constructed' = r.made
            /\ last' = [op |-> "load_model", sequence_length |-> sequence_length,
                        device |-> device, hit |-> r.hit, ret |-> r.ret,
                        before |-> model_cache, outcome |-> env.outcome]
            /\ UNCHANGED <<audio_pipeline, pipelines_built, modelFiles,
                           cudaAvailable, tempFiles>>

\* Most pipelines built in the modelled runs of the pipeline cache.
MaxBuilds == 3

\* validate_audio_file(file_path, content_type)
ValidateAudioFile ==
    /\ last.op = "none"
    /\ \E file \in AudioFiles, content_type \in ContentTypes :
        /\ last' = [op |-> "validate_audio_file", file |-> file,
                    content_type |-> content_type,
                    ret |-> validate_audio_file(file, content_type)]
        /\ UNCHANGED <<model_cache, constructed, audio_pipeline, pipelines_built,
                       modelFiles, cudaAvailable, tempFiles>>

\* The files and content types of the modelled direct predict_audio calls.
PredictFiles ==
    { [path |-> pathWav, exists |-> TRUE, size |-> 1],
      [path |-> pathMp3Upper, exists |-> TRUE, size |-> 1],
      [path |-> pathWav, exists |-> TRUE, size |-> 0],
      [path |-> pathTxt, exists |-> TRUE, size |-> 1] }

PredictContentTypes == {NoneStr, ctMpegParam, ctVideo}

\* predict_audio(file_path, content_type)
PredictAudio ==
    /\ last.op = "none"
    /\ \E file \in PredictFiles, content_type \in PredictContentTypes :
        \E env \in PredictAudioEnvs(file, content_type, audio_pipeline, InferChoices) :
            \E r \in {predict_audio(file, content_type, audio_pipeline, pipelines_built,
                                   tempFiles, env)} :
                /\ Cardinality(r.temps) <= MaxTempFiles
                /\ r.built <= MaxBuilds
                /\ audio_pipeline' = r.pipe
                /\ pipelines_built' = r.built
                /\ tempFiles' = r.temps
                /\ last' = [op |-> "predict_audio", file |-> file,
                            content_type |-> content_type, env |-> env, ret |-> r.out,
                            before |-> tempFiles]
                /\ UNCHANGED <<model_cache, constructed, modelFiles, cudaAvailable>>

\* POST /api/predict
PredictVideoEndpoint ==
    /\ last.op = "none"
    /\ \E file \in VideoUploads, sequence_length \in SequenceLengthRequests :
        \E env \in VideoEnvs(model_cache, cudaAvailable, modelFiles, file,
                             sequence_length) :
            \E r \in {predict_video_endpoint(model_cache, constructed, cudaAvailable,
                                            tempFiles, file, sequence_length, env)} :
                /\ \A k \in CacheKeys : r.made[k] <= MaxConstruct
                /\ Cardinality(r.temps) <= MaxTempFiles
                /\ model_cache' = r.cache
                /\ constructed' = r.made
                /\ tempFiles' = r.temps
                /\ last' = [op |-> "predict_video_endpoint", file |-> file,
                            sequence_length |-> sequence_length,
                            preprocess_ok |-> env.preprocess_ok,
                            predict_ok |-> env.predict_ok,
                            saved |-> r.saved, model |-> r.model, ret |-> r.out,
                            temp_path |-> IF file.filename = NoneStr THEN NoneStr
                                          ELSE FreshTemp(tempFiles,
                                                         SplitExt(file.filename)),
                            unlink_ok |-> env.unlink_ok]
                /\ UNCHANGED <<audio_pipeline, pipelines_built, modelFiles,
                               cudaAvailable>>

\* POST /api/audio/predict
PredictAudioEndpoint ==
    /\ last.op = "none"
    /\ \E file \in AudioUploads :
        \E env \in AudioRequestEnvs(audio_pipeline, tempFiles, file) :
            \E r \in {predict_audio_endpoint(audio_pipeline, pipelines_built,
                                            tempFiles, file, env)} :
                /\ Cardinality(r.temps) <= MaxTempFiles
                /\ r.built <= MaxBuilds
                /\ audio_pipeline' = r.pipe
                /\ pipelines_built' = r.built
                /\ tempFiles' = r.temps
                /\ last' = [op |-> "predict_audio_endpoint", file |-> file,
                            save |-> env.save, saved |-> r.saved, inner |-> r.inner,
                            ret |-> r.out,
                            temp_path |-> FreshTemp(tempFiles, UploadSuffix(file)),
                            unlink_ok |-> env.unlink_ok]
                /\ UNCHANGED <<model_cache, constructed, modelFiles, cudaAvailable>>

\* predict(model, img_tensor, device) on a model whose forward pass gives
\* logits, and the label line 146 of the video handler makes of the result.
Predict ==
    /\ last.op = "none"
    /\ \E logits \in LogitPairs :
        \E r \in {predict(Softmax(logits))} :
            /\ last' = [op |-> "predict", logits |-> logits,
                        probs |-> Softmax(logits), ret |-> r,
                        label |-> prediction_label(r[1])]
            /\ UNCHANGED <<model_cache, constructed, audio_pipeline, pipelines_built,
                           modelFiles, cudaAvailable, tempFiles>>

\* load_audio_pipeline()
LoadAudioPipeline ==
    /\ last.op = "none"
    /\ \E built_ok \in BOOLEAN :
        \E r \in {load_audio_pipeline(audio_pipeline, pipelines_built, built_ok)} :
            /\ r.built <= MaxBuilds
            /\ audio_pipeline' = r.pipe
            /\ pipelines_built' = r.built
            /\ last' = [op |-> "load_audio_pipeline", ret |-> r.out,
                        before |-> audio_pipeline, built_before |-> pipelines_built]
            /\ UNCHANGED <<model_cache, constructed, modelFiles, cudaAvailable,
                           tempFiles>>

\* An unload that empties the video model cache as well.
UnloadEverything ==
    /\ last.op = "none"
    /\ audio_pipeline' = unload_audio_pipeline(audio_pipeline)
    /\ model_cache' = EmptyCache
    /\ last' = [op |-> "unload_audio_pipeline", before |-> audio_pipeline,
                built_before |-> pipelines_built]
    /\ UNCHANGED <<constructed, pipelines_built, modelFiles, cudaAvailable, tempFiles>>

\* unload_audio_pipeline()
UnloadAudioPipeline ==
    /\ last.op = "none"
    /\ audio_pipeline' = unload_audio_pipeline(audio_pipeline)
    /\ last' = [op |-> "unload_audio_pipeline", before |-> audio_pipeline,
                built_before |-> pipelines_built]
    /\ UNCHANGED <<model_cache, constructed, pipelines_built, modelFiles,
                   cudaAvailable, tempFiles>>

\* is_audio_pipeline_loaded()
IsAudioPipelineLoaded ==
    /\ last.op = "none"
    /\ last' = [op |-> "is_audio_pipeline_loaded",
                ret |-> is_audio_pipeline_loaded(audio_pipeline),
                before |-> audio_pipeline, built_before |-> pipelines_built]
    /\ UNCHANGED <<model_cache, constructed, audio_pipeline, pipelines_built,
                   modelFiles, cudaAvailable, tempFiles>>

\* An upper-case name of a direct format.
pathFlacUpper == <<"/", "u", "p", "/", "a", ".", "F", "L", "A", "C">>

\* The paths of the modelled direct convert_to_wav calls.
ConvertPaths == AudioPaths \cup {pathFlacUpper}

\* convert_to_wav(input_path)
ConvertToWav ==
    /\ last.op = "none"
    /\ \E input_path \in ConvertPaths, outcome \in ConvertOutcomes :
        \E r \in {convert_to_wav(input_path, tempFiles, outcome)} :
            /\ Cardinality(r.temps) <= MaxTempFiles
            /\ tempFiles' = r.temps
            /\ last' = [op |-> "convert_to_wav", input_path |-> input_path,
                        outcome |-> outcome, ran |-> r.ran, ret |-> r.out,
                        before |-> tempFiles]
            /\ UNCHANGED <<model_cache, constructed, audio_pipeline, pipelines_built,
                           modelFiles, cudaAvailable>>

\* The caller takes the result: the next call can start.
Finish ==
    /\ last.op # "none"
    /\ last' = [op |-> "none"]
    /\ UNCHANGED <<model_cache, constructed, audio_pipeline, pipelines_built,
                   modelFiles, cudaAvailable, tempFiles>>

Next ==
    \/ PreprocessVideo
    \/ DatasetGetItem
    \/ GetAccurateModel
    \/ LoadModel
    \/ Predict
    \/ ValidateAudioFile
    \/ ConvertToWav
    \/ PredictAudio
    \/ LoadAudioPipeline
    \/ UnloadAudioPipeline
    \/ IsAudioPipelineLoaded
    \/ PredictVideoEndpoint
    \/ PredictAudioEndpoint
    \/ Finish

Spec == Init /\ [][Next]_vars

\* Video preprocessing on its own.
NextFrames == PreprocessVideo \/ DatasetGetItem \/ Finish

SpecFrames == Init /\ [][NextFrames]_vars

\* Model selection and the model cache.
NextModels == GetAccurateModel \/ LoadModel \/ Finish

SpecModels == Init /\ [][NextModels]_vars

\* The audio pipeline below the handler, with no GPU and no model files.
InitAudio == Init /\ modelFiles = {} /\ ~cudaAvailable

NextAudio == ValidateAudioFile \/ PredictAudio \/ Finish

SpecAudio == InitAudio /\ [][NextAudio]_vars

\* Inference on its own.
NextPredict == Predict \/ Finish

SpecPredict == Init /\ [][NextPredict]_vars

\* Conversion on its own.
NextConvert == ConvertToWav \/ Finish

SpecConvert == Init /\ [][NextConvert]_vars

\* The video handler.
NextVideoServer == PredictVideoEndpoint \/ Finish

SpecVideoServer == Init /\ [][NextVideoServer]_vars

\* The audio handler.
NextAudioServer == PredictAudioEndpoint \/ Finish

SpecAudioServer == InitAudio /\ [][NextAudioServer]_vars

\* The cached audio pipeline on its own.
NextPipeline ==
    LoadAudioPipeline \/ UnloadAudioPipeline \/ IsAudioPipelineLoaded \/ Finish

SpecPipeline == Init /\ [][NextPipeline]_vars

\* The two handlers together.
NextServers == PredictVideoEndpoint \/ PredictAudioEndpoint \/ Finish

\* One models directory, with models for one of the lengths, and no GPU.
InitServers == Init /\ modelFiles = {fileA, fileB, fileF} /\ ~cudaAvailable

SpecServers == InitServers /\ [][NextServers]_vars

\* The calls that write temporary files, when they leave none behind: no
\* failed copy, no failed conversion, no failed os.unlink.
PredictAudioTidy == PredictAudio /\ tempFiles' = tempFiles

VideoRequestTidy == PredictVideoEndpoint /\ tempFiles' = tempFiles

AudioRequestTidy == PredictAudioEndpoint /\ tempFiles' = tempFiles

\* The operations of the two pipelines interleaved.
NextBoth ==
    \/ LoadModel
    \/ PreprocessVideo
    \/ Predict
    \/ VideoRequestTidy
    \/ PredictAudioTidy
    \/ LoadAudioPipeline
    \/ UnloadAudioPipeline
    \/ AudioRequestTidy
    \/ Finish

SpecBoth == InitServers /\ [][NextBoth]_vars

(***************************************************************************)
(* The claims.                                                             *)
(***************************************************************************)

\* The frame sequence a preprocessing call returned.
ReturnedFrames ==
    IF last.op = "preprocess_video" THEN last.ret[1] ELSE last.ret

IsFramesCall == last.op \in {"preprocess_video", "ValidationDataset.__getitem__"}

\* C1: preprocess_video and ValidationDataset.__getitem__ return exactly
\* sequence_length frames; the first min(n, L) are the transformed first
\* frames of the video in order; when 0 < n < L every trailing entry is the
\* n-th frame again; when n = 0 every entry is the all-zero frame.
C1_FixedLengthSequence ==
    IsFramesCall =>
        LET n == Len(last.frames)
            L == last.sequence_length
            out == ReturnedFrames
        IN  /\ Len(out) = L
            /\ \A i \in 1..Min(n, L) : out[i].kind = "tensor" /\ out[i].of.src = i
            /\ (0 < n /\ n < L) => \A k \in (n + 1)..L : out[k] = out[n]
            /\ n = 0 => \A k \in 1..L : out[k] = [kind |-> "zeros", size |-> 112]

\* A video of two frames padded to four by preprocess_video.
C1_Witness ==
    /\ last.op = "preprocess_video"
    /\ Len(last.frames) = 2
    /\ last.sequence_length = 4
    /\ last.ret[1][4] = last.ret[1][2]
    /\ last.ret[1][2].of.src = 2

\* The clamped, scaled and reported numbers of a predict_audio result.
IsAudioResult == last.op = "predict_audio" /\ last.ret.exc = "none"

HasLabel(results, label) == \E i \in 1..Len(results) : results[i].label = label

\* The raw score of a label as a fraction <<numerator, denominator>>: the
\* score of the list's last item with that label, 1/2 when there is none.
RawFraction(results, label) ==
    IF HasLabel(results, label)
    THEN <<results[CHOOSE i \in 1..Len(results) :
                     /\ results[i].label = label
                     /\ \A j \in (i + 1)..Len(results) : results[j].label # label].score,
           ScoreSteps>>
    ELSE <<1, 2>>

WinnerLabel == IF last.ret.value.prediction = "REAL" THEN "real" ELSE "fake"

\* confidence / 100 <= raw score of the winning class
ConfidenceAtMostRaw ==
    LET raw == RawFraction(last.env.infer.results, WinnerLabel)
    IN  last.ret.value.confidence * raw[2] <= raw[1] * 10000

\* Both labels are present and the two raw scores sum to 1.
Complementary(results) ==
    /\ HasLabel(results, "real")
    /\ HasLabel(results, "fake")
    /\ RawFraction(results, "real")[1] + RawFraction(results, "fake")[1] = ScoreSteps

\* C2, as stated: for every set of raw scores, a label missing or the scores
\* not summing to 1 included, the reported confidence of the winning class is
\* at most the raw score of that class.
C2_ScaledAtMostRaw == IsAudioResult => ConfidenceAtMostRaw

\* C2, amended: when both labels are present and their raw scores sum to 1,
\* the reported confidence of the winning class is at most its raw score.
C2_ScaledAtMostRawComplementary ==
    (IsAudioResult /\ Complementary(last.env.infer.results)) => ConfidenceAtMostRaw

\* real 6/8 against fake 2/8: the confidence is softened below 75.
C2_Witness ==
    /\ IsAudioResult
    /\ Complementary(last.env.infer.results)
    /\ RawFraction(last.env.infer.results, "real")[1] * 4 = 3 * ScoreSteps
    /\ last.ret.value.prediction = "REAL"
    /\ last.ret.value.confidence < 7500
    /\ last.ret.value.confidence > 5000

\* C3, as stated: the cache holds one instance per configuration, the model
\* of a configuration is constructed at most once, and a successful
\* load_model returns the cached instance.
C3_ConstructedAtMostOnce ==
    /\ \A k \in CacheKeys : constructed[k] <= 1
    /\ \A k \in DOMAIN model_cache : model_cache[k].key = k

\* C3, amended: the cache holds one instance per configuration, the
\* instance of its own configuration; once a configuration is cached no
\* load_model call constructs or replaces its model (the cached instance is
\* the last one constructed); and every successful load_model returns the
\* instance the cache holds, which is the instance it held before the call
\* if it held one.  A load that fails after Model(...) returned caches
\* nothing, and the next call constructs again.
C3_OneCachedInstance ==
    /\ \A k \in DOMAIN model_cache :
          /\ k \in CacheKeys
          /\ model_cache[k].kind = "Model"
          /\ model_cache[k].key = k
          /\ model_cache[k].serial = constructed[k]
    /\ last.op = "load_model" =>
          LET key == <<last.sequence_length, last.device>>
          IN  /\ \A k \in DOMAIN last.before :
                    k \in DOMAIN model_cache /\ model_cache[k] = last.before[k]
              /\ last.ret # None =>
                    /\ key \in DOMAIN model_cache
                    /\ model_cache[key] = last.ret
              /\ last.ret = None => key \notin DOMAIN model_cache
              /\ last.hit <=> key \in DOMAIN last.before

\* A second load of a cached configuration returns the cached instance, after
\* an earlier load of the same configuration failed past construction.
C3_Witness ==
    /\ last.op = "load_model"
    /\ last.hit
    /\ last.ret = model_cache[<<last.sequence_length, last.device>>]
    /\ last.ret.serial = 2
    /\ constructed[<<last.sequence_length, last.device>>] = 2

\* The rectangle a returned frame was cut from, <<top, bottom, left, right>>.
CropOf(tensor) == <<tensor.of.top, tensor.of.bottom, tensor.of.left, tensor.of.right>>

\* The first face box of a frame enlarged by 40 pixels on each side, inside
\* the frame; the whole frame when no face was found.
ExpectedCrop(frame) ==
    IF Len(frame.faces) = 0 THEN <<0, frame.h, 0, frame.w>>
    ELSE LET box == frame.faces[1]
         IN  <<IF box[1] - 40 < 0 THEN 0 ELSE box[1] - 40,
               IF box[3] + 40 > frame.h THEN frame.h ELSE box[3] + 40,
               IF box[4] - 40 < 0 THEN 0 ELSE box[4] - 40,
               IF box[2] + 40 > frame.w THEN frame.w ELSE box[2] + 40>>

\* C4: in preprocess_video and in ValidationDataset.__getitem__, a frame with
\* a detected face is cut to the first face box enlarged by 40 pixels on each
\* side, limited to the frame; a frame without a face is passed on whole.
C4_FaceCropMargin ==
    IsFramesCall =>
        \A i \in 1..Min(Len(last.frames), last.sequence_length) :
            CropOf(ReturnedFrames[i]) = ExpectedCrop(last.frames[i])

\* C5: a video request with a valid sequence length, a content type starting
\* with 'video/', a model that loads and preprocessing and inference that do
\* not raise ends in a success response carrying prediction, confidence,
\* sequence_length, device, faces_found, total_frames_analyzed, frame_images.
C5_VideoSuccess ==
    ( /\ last.op = "predict_video_endpoint"
      /\ last.sequence_length \in {10, 20, 40, 60, 80, 100}
      /\ last.file.content_type \in {ctVideo}
      /\ last.saved
      /\ last.model # None
      /\ last.preprocess_ok
      /\ last.predict_ok )
    => /\ last.ret.exc = "none"
       /\ last.ret.value.status_code = 200
       /\ DOMAIN last.ret.value.content =
            {"prediction", "confidence", "sequence_length", "device", "faces_found",
             "total_frames_analyzed", "frame_images"}

\* The lower-cased extension of each modelled path, and the content types
\* whose base type is not an audio type.
ListedExtension(path) ==
    IF path = pathWav THEN <<".", "w", "a", "v">>
    ELSE IF path = pathMp3Upper THEN <<".", "m", "p", "3">>
    ELSE IF path = pathOgg THEN <<".", "o", "g", "g">>
    ELSE IF path = pathM4a THEN <<".", "m", "4", "a">>
    ELSE IF path = pathTxt THEN <<".", "t", "x", "t">>
    ELSE <<>>

NonAudioTypes == {ctVideo, ctTextAudio, ctBlankParam}

\* The first of the five tests that fails, "" when none does.
ExpectedValidation(file, content_type) ==
    IF ~file.exists THEN "Audio file not found"
    ELSE IF file.size = 0 THEN "Audio file is empty"
    ELSE IF file.size > 52428800 THEN "Audio file too large (max 50MB)"
    ELSE IF /\ ListedExtension(file.path) # <<>>
            /\ ListedExtension(file.path) \notin
                 { <<".", "w", "a", "v">>, <<".", "m", "p", "3">>,
                   <<".", "f", "l", "a", "c">>, <<".", "m", "4", "a">>,
                   <<".", "o", "g", "g">>, <<".", "w", "m", "a">>,
                   <<".", "a", "a", "c">> }
    THEN "Unsupported audio format"
    ELSE IF content_type \in NonAudioTypes THEN "Invalid content type"
    ELSE ""

\* C6: validate_audio_file raises AudioValidationError exactly when the file
\* does not exist, is empty, is larger than 50MB, has a non-empty extension
\* outside the supported set (case-insensitively), or comes with a content
\* type whose trimmed, lower-cased base type is no audio type; the error is
\* that of the first test that fails, and otherwise the call returns.
C6_ValidationExact ==
    last.op = "validate_audio_file" =>
        LET expected == ExpectedValidation(last.file, last.content_type)
        IN  IF expected = ""
            THEN last.ret.exc = "none"
            ELSE /\ last.ret.exc = "AudioValidationError"
                 /\ last.ret.detail = expected

\* An upper-case .MP3 sent as "Audio/MPEG; charset=x" is accepted.
C6_Witness ==
    /\ last.op = "validate_audio_file"
    /\ last.file.path = pathMp3Upper
    /\ last.file.size = 52428800
    /\ last.content_type = ctMpegParam
    /\ last.ret.exc = "none"

\* C7: the audio handler answers 400 to a given content type that does not
\* start with 'audio/' before anything is saved, 400 to AudioValidationError
\* and AudioLoadError, 500 to AudioPredictionError and to any other
\* exception, returns a successful predict_audio result unchanged as the
\* body, and lets nothing but HTTPException escape.
C7_AudioStatus ==
    last.op = "predict_audio_endpoint" =>
        /\ last.ret.exc \in {"none", "HTTPException"}
        /\ last.file.content_type \in {ctVideo, ctMpegParam} =>
              /\ last.ret.exc = "HTTPException"
              /\ last.ret.status_code = 400
              /\ ~last.saved
              /\ last.inner.exc = "not called"
        /\ last.inner.exc \in {"AudioValidationError", "AudioLoadError"} =>
              last.ret = [exc |-> "HTTPException", detail |-> last.inner.detail,
                          status_code |-> 400]
        /\ last.inner.exc = "AudioPredictionError" =>
              (last.ret.exc = "HTTPException" /\ last.ret.status_code = 500)
        /\ (last.file.content_type \in {NoneStr, ctWav} /\ last.save # "saved") =>
              (last.ret.exc = "HTTPException" /\ last.ret.status_code = 500)
        /\ last.inner.exc = "none" =>
              last.ret = [exc |-> "none",
                          value |-> [status_code |-> 200, content |-> last.inner.value]]

\* A failed conversion of an uploaded .MP3 is answered 400.
C7_Witness ==
    /\ last.op = "predict_audio_endpoint"
    /\ last.file.filename = nameMp3Upper
    /\ last.inner.exc = "AudioLoadError"
    /\ last.ret.exc = "HTTPException"
    /\ last.ret.status_code = 400

\* C8: the video handler answers 400 to a sequence length outside
\* {10, 20, 40, 60, 80, 100} and to a content type that is missing or does
\* not start with 'video/', 500 when load_model returns None and to every
\* other exception; a 400 is never turned into a 500.
C8_VideoStatus ==
    last.op = "predict_video_endpoint" =>
        /\ last.ret.exc \in {"none", "HTTPException"}
        /\ last.ret.exc = "HTTPException" => last.ret.status_code \in {400, 500}
        /\ last.sequence_length \notin {10, 20, 40, 60, 80, 100} =>
              (last.ret.exc = "HTTPException" /\ last.ret.status_code = 400)
        /\ last.file.content_type \in {NoneStr, ctEmpty, ctVideoUpper, ctWav} =>
              (last.ret.exc = "HTTPException" /\ last.ret.status_code = 400)
        /\ last.model = None =>
              last.ret = [exc |-> "HTTPException", detail |-> "Failed to load model",
                          status_code |-> 500]
        /\ ( /\ last.sequence_length \in {10, 20, 40, 60, 80, 100}
             /\ last.file.content_type = ctVideo
             /\ (~last.saved \/ ~last.preprocess_ok) ) =>
              (last.ret.exc = "HTTPException" /\ last.ret.status_code = 500)

\* load_model returned None for a valid, saved request: the answer is 500.
C8_Witness ==
    /\ last.op = "predict_video_endpoint"
    /\ last.saved
    /\ last.model = None
    /\ last.ret.exc = "HTTPException"
    /\ last.ret.status_code = 500

\* C9: a predict_audio result has prediction REAL or FAKE, a confidence in
\* [0, 100] equal to the all_scores entry of the predicted class, which is
\* the larger or equal of the two entries, so never below 50; with equal raw
\* scores the prediction is FAKE with confidence 50.
C9_ResultConsistent ==
    IsAudioResult =>
        LET result == last.ret.value
            results == last.env.infer.results
            own == IF result.prediction = "REAL" THEN result.all_scores.real
                   ELSE result.all_scores.fake
            other == IF result.prediction = "REAL" THEN result.all_scores.fake
                     ELSE result.all_scores.real
        IN  /\ result.prediction \in {"REAL", "FAKE"}
            /\ result.confidence >= 0 /\ result.confidence <= 10000
            /\ result.confidence = own
            /\ own >= other
            /\ result.confidence >= 5000
            /\ ( RawFraction(results, "real")[1] * RawFraction(results, "fake")[2]
                   = RawFraction(results, "fake")[1] * RawFraction(results, "real")[2] )
               => (result.prediction = "FAKE" /\ result.confidence = 5000)

\* Equal raw scores of 1/4 each: FAKE with confidence 50.
C9_Witness ==
    /\ IsAudioResult
    /\ HasLabel(last.env.infer.results, "real")
    /\ RawFraction(last.env.infer.results, "real")[1] * 4 = ScoreSteps
    /\ RawFraction(last.env.infer.results, "fake")[1] * 4 = ScoreSteps
    /\ last.ret.value.prediction = "FAKE"
    /\ last.ret.value.confidence = 5000

\* The frame count and the accuracy the name of each modelled .pt file
\* carries; 0 frames for a name that does not follow the pattern.
ListedFrames(f) ==
    IF f \in {fileA, fileB, fileH} THEN 10
    ELSE IF f \in {fileC, fileD} THEN 20
    ELSE 0

ListedAccuracy(f) ==
    IF f = fileA THEN 84
    ELSE IF f = fileB THEN 9
    ELSE IF f = fileC THEN 97
    ELSE IF f = fileD THEN 90
    ELSE IF f = fileH THEN 93
    ELSE 0

PtFiles == modelFiles \ {fileG}

\* C10: get_accurate_model returns None when there is no .pt file or none
\* whose name carries the frame count; otherwise the path of a file with
\* that frame count whose accuracy is the highest as a number.
C10_HighestAccuracy ==
    last.op = "get_accurate_model" =>
        LET candidates == {f \in PtFiles : ListedFrames(f) = last.sequence_length}
        IN  IF candidates = {}
            THEN last.ret = None
            ELSE /\ last.ret # None
                 /\ last.ret.name \in candidates
                 /\ \A f \in candidates :
                        ListedAccuracy(f) <= ListedAccuracy(last.ret.name)

\* C11: convert_to_wav returns the input path, creating no file and not
\* running the transcoder, exactly when the extension is .wav, .flac or .ogg
\* in any case; for any other extension it returns a new temporary .wav
\* path other than the input when the transcoder exits 0, and raises
\* AudioLoadError when the transcoder exits non-zero, times out, is not
\* installed or fails otherwise.
C11_ConvertOutcome ==
    last.op = "convert_to_wav" =>
        IF last.input_path \in {pathWav, pathOgg, pathFlacUpper}
        THEN /\ last.ret = [exc |-> "none", value |-> last.input_path]
             /\ tempFiles = last.before
             /\ ~last.ran
        ELSE /\ last.ret.exc = "none" <=> last.outcome = "exit_0"
             /\ last.outcome = "exit_0" =>
                    /\ last.ran
                    /\ last.ret.value # last.input_path
                    /\ last.ret.value \notin last.before
                    /\ tempFiles = last.before \cup {last.ret.value}
                    /\ SubSeq(last.ret.value, Len(last.ret.value) - 3,
                              Len(last.ret.value)) = <<".", "w", "a", "v">>
             /\ last.outcome \in {"exit_nonzero", "timeout", "not_installed",
                                  "other_error"} =>
                    (last.ran /\ last.ret.exc = "AudioLoadError")

\* An .m4a converted while an earlier temporary file is still on disk.
C11_Witness ==
    /\ last.op = "convert_to_wav"
    /\ last.input_path = pathM4a
    /\ last.outcome = "exit_0"
    /\ last.before # {}
    /\ last.ret.exc = "none"
    /\ last.ret.value \in tempFiles \ last.before

\* C12: for every pair of logits predict returns the index, 0 or 1, of the
\* class with the larger softmax probability and that probability times 100
\* as the confidence, which lies in [50, 100]; the label is REAL exactly when
\* the prediction is 1 and FAKE otherwise.
C12_ArgmaxConfidence ==
    last.op = "predict" =>
        LET prediction == last.ret[1]
            confidence == last.ret[2]
        IN  /\ prediction \in {0, 1}
            /\ last.logits[2] > last.logits[1] => prediction = 1
            /\ last.logits[1] > last.logits[2] => prediction = 0
            /\ last.probs[prediction + 1] >= last.probs[2 - prediction]
            /\ confidence = last.probs[prediction + 1]
            /\ confidence >= 5000 /\ confidence <= 10000
            /\ last.label = "REAL" <=> prediction = 1
            /\ last.label = "FAKE" <=> prediction = 0

\* Logits 0 and 2: class 1 with probability 0.8808, reported REAL.
C12_Witness ==
    /\ last.op = "predict"
    /\ last.logits = <<0, 2>>
    /\ last.ret = <<1, 8808>>
    /\ last.label = "REAL"

\* C13: when a predict_audio call has finished, by a result or by any of its
\* errors, the AudioLoadError of a failed or timed-out conversion included,
\* no temporary WAV file convert_to_wav created during the call is left
\* (os.unlink itself not failing).
C13_NoTempWavLeft ==
    (last.op = "predict_audio" /\ last.env.unlink_ok) => tempFiles \subseteq last.before

\* C14: in both handlers, once the upload has been saved to a temporary
\* file, that file is gone when the handler has finished, on every path,
\* provided os.unlink does not fail; and when os.unlink fails the handler
\* still ends in the response or the error of the path it took.
C14_UploadDeleted ==
    (last.op \in {"predict_video_endpoint", "predict_audio_endpoint"} /\ last.saved) =>
        /\ last.unlink_ok => last.temp_path \notin tempFiles
        /\ last.ret.exc \in {"none", "HTTPException"}
        /\ last.op = "predict_video_endpoint" =>
              /\ last.ret.exc = "HTTPException"
                    => last.ret.detail \in {"Failed to load model", "Prediction failed"}
              /\ last.model = None <=> (/\ last.ret.exc = "HTTPException"
                                        /\ last.ret.detail = "Failed to load model")
        /\ last.op = "predict_audio_endpoint" =>
              /\ last.inner.exc = "none" =>
                    (last.ret.exc = "none" /\ last.ret.value.content = last.inner.value)
              /\ last.inner.exc # "none" =>
                    (last.ret.exc = "HTTPException" /\ last.ret.detail = last.inner.detail)

\* An uploaded .MP3 whose conversion failed: the handler's copy is deleted
\* although the request ended in an error.
C14_Witness ==
    /\ last.op = "predict_audio_endpoint"
    /\ last.saved
    /\ last.unlink_ok
    /\ last.inner.exc = "AudioLoadError"
    /\ last.ret.exc = "HTTPException"
    /\ last.temp_path \notin tempFiles
    /\ tempFiles # {}

\* C15: a load_model call that fails, because no model file matches the
\* sequence length or because constructing or loading the model raises,
\* returns None and leaves the cache as it was; only a successful load adds
\* an entry, and no call removes or replaces one, so a configuration that
\* failed is not in the cache and is tried again by the next call.
C15_FailedLoadNotCached ==
    last.op = "load_model" =>
        LET key == <<last.sequence_length, last.device>>
            candidates == {f \in PtFiles : ListedFrames(f) = last.sequence_length}
            fails == /\ key \notin DOMAIN last.before
                     /\ \/ candidates = {}
                        \/ last.outcome \in {"construct_raises", "load_raises"}
        IN  /\ fails <=> last.ret = None
            /\ last.ret = None =>
                  (model_cache = last.before /\ key \notin DOMAIN model_cache)
            /\ \A k \in DOMAIN last.before :
                  k \in DOMAIN model_cache /\ model_cache[k] = last.before[k]
            /\ model_cache # last.before =>
                  /\ last.ret # None
                  /\ key \notin DOMAIN last.before
                  /\ DOMAIN model_cache = DOMAIN last.before \cup {key}

\* A configuration whose first load failed after construction is loaded by
\* a later call, which constructs a second model and caches it.
C15_Witness ==
    /\ last.op = "load_model"
    /\ ~last.hit
    /\ last.ret # None
    /\ last.ret.serial = 2
    /\ <<last.sequence_length, last.device>> \notin DOMAIN last.before
    /\ model_cache[<<last.sequence_length, last.device>>] = last.ret

IsPipelineCall ==
    last.op \in {"load_audio_pipeline", "unload_audio_pipeline",
                 "is_audio_pipeline_loaded"}

\* C16: over any sequence of load_audio_pipeline, unload_audio_pipeline and
\* is_audio_pipeline_loaded calls at most one pipeline exists, the cached
\* one, which is the last one built.  Call by call: a load builds a pipeline
\* only when none is cached and otherwise returns the cached one; a load
\* that fails raises RuntimeError and leaves the pipeline unloaded; an
\* unload leaves it unloaded; is_audio_pipeline_loaded changes nothing and
\* answers whether a pipeline is cached, which by the preceding is whether
\* the last successful load has not been followed by an unload.
C16_SinglePipeline ==
    /\ audio_pipeline # None =>
          (audio_pipeline.kind = "pipeline" /\ audio_pipeline.serial = pipelines_built)
    /\ IsPipelineCall =>
          /\ pipelines_built >= last.built_before
          /\ pipelines_built <= last.built_before + 1
          /\ pipelines_built = last.built_before + 1 =>
                /\ last.op = "load_audio_pipeline"
                /\ last.before = None
                /\ last.ret.exc = "none"
    /\ last.op = "load_audio_pipeline" =>
          /\ last.ret.exc \in {"none", "RuntimeError"}
          /\ last.ret.exc = "none" =>
                /\ audio_pipeline # None
                /\ last.ret.value = audio_pipeline
                /\ last.before # None =>
                      (audio_pipeline = last.before
                       /\ pipelines_built = last.built_before)
                /\ last.before = None => pipelines_built = last.built_before + 1
          /\ last.ret.exc = "RuntimeError" =>
                (last.before = None /\ audio_pipeline = None)
    /\ last.op = "unload_audio_pipeline" => audio_pipeline = None
    /\ last.op = "is_audio_pipeline_loaded" =>
          /\ audio_pipeline = last.before
          /\ last.ret <=> audio_pipeline # None

\* Loaded, unloaded and loaded again: the second pipeline is reported loaded.
C16_Witness ==
    /\ last.op = "is_audio_pipeline_loaded"
    /\ last.ret
    /\ pipelines_built = 2
    /\ audio_pipeline.serial = 2

AudioOps ==
    {"predict_audio", "load_audio_pipeline", "unload_audio_pipeline",
     "predict_audio_endpoint"}

VideoOps == {"load_model", "preprocess_video", "predict", "predict_video_endpoint"}

====
